---- MODULE Spec2Model ----
(***************************************************************************)
(* domain_changer: rewriting the hosts of the links of a text.             *)
(*                                                                         *)
(* A string is a sequence of one-character strings, so that starts_with,   *)
(* split_ascii_whitespace, join and the URL parser are computed character  *)
(* by character.  Url models url::Url as the repository uses it: parse,    *)
(* host_str, has_host, set_host and as_str, over the characters of the     *)
(* pools below (no '@', no percent escape %HH, no '.' or '..' path         *)
(* segment, no numeric or bracketed host, no file: scheme).                *)
(***************************************************************************)
EXTENDS Integers, Sequences, FiniteSets, TLC

VARIABLES domains, text, pieces, last, arg, built, found, out, extracted

vars == <<domains, text, pieces, last, arg, built, found, out, extracted>>

(***************************************************************************)
(* Bounds.                                                                 *)
(***************************************************************************)
MaxEntries == 2
MaxPieces == 3

(***************************************************************************)
(* Characters and strings.                                                 *)
(***************************************************************************)
UpperChars == <<"A","B","C","D","E","F","G","H","I","J","K","L","M",
                "N","O","P","Q","R","S","T","U","V","W","X","Y","Z">>
LowerChars == <<"a","b","c","d","e","f","g","h","i","j","k","l","m",
                "n","o","p","q","r","s","t","u","v","w","x","y","z">>
Digits == <<"0","1","2","3","4","5","6","7","8","9">>

Range(s) == {s[i] : i \in DOMAIN s}

IsUpper(c) == c \in Range(UpperChars)
IsAlpha(c) == c \in Range(UpperChars) \cup Range(LowerChars)
IsDigit(c) == c \in Range(Digits)

to_ascii_lowercase(c) ==
    IF IsUpper(c) THEN LowerChars[CHOOSE i \in DOMAIN UpperChars : UpperChars[i] = c]
    ELSE c

LowerStr(s) == [i \in DOMAIN s |-> to_ascii_lowercase(s[i])]

DigitVal(c) == (CHOOSE i \in DOMAIN Digits : Digits[i] = c) - 1

\* str::starts_with
starts_with(s, p) == Len(s) >= Len(p) /\ SubSeq(s, 1, Len(p)) = p

\* the characters of s from position n on
From(s, n) == SubSeq(s, n, Len(s))

\* position of the first character of s, from position i on, that is in set;
\* Len(s) + 1 when none is
RECURSIVE FindFrom(_, _, _)
FindFrom(s, set, i) ==
    IF i > Len(s) \/ s[i] \in set THEN i ELSE FindFrom(s, set, i + 1)

FindFirst(s, set) == FindFrom(s, set, 1)

\* position of the first character of s, from position i on, that is not in set;
\* Len(s) + 1 when none is
RECURSIVE FindNotFrom(_, _, _)
FindNotFrom(s, set, i) ==
    IF i > Len(s) \/ s[i] \notin set THEN i ELSE FindNotFrom(s, set, i + 1)

FindFirstNot(s, set) == FindNotFrom(s, set, 1)

\* char::is_ascii_whitespace: space, tab, line feed, form feed, carriage return
AsciiWhitespace == {" ", "\t", "\n", "\f", "\r"}

\* str::split_ascii_whitespace: the maximal runs of non-whitespace characters.
\* SplitAt takes the word that ends before position e of r, which starts with it.
RECURSIVE split_ascii_whitespace(_)
SplitAt(r, e) == <<SubSeq(r, 1, e - 1)>> \o split_ascii_whitespace(From(r, e))

SplitFrom(s, b) ==
    IF b > Len(s) THEN <<>>
    ELSE SplitAt(From(s, b), FindFrom(s, AsciiWhitespace, b) - b + 1)

split_ascii_whitespace(s) == SplitFrom(s, FindFirstNot(s, AsciiWhitespace))

\* a faulty join: every word, the last included, is followed by the separator
RECURSIVE join_trailing(_, _)
join_trailing(ws, sep) ==
    IF ws = <<>> THEN <<>>
    ELSE ws[1] \o sep \o join_trailing(Tail(ws), sep)

\* [String]::join(sep)
RECURSIVE join(_, _)
join(ws, sep) ==
    IF ws = <<>> THEN <<>>
    ELSE IF Len(ws) = 1 THEN ws[1]
    ELSE ws[1] \o sep \o join(Tail(ws), sep)

(***************************************************************************)
(* url::Url.                                                               *)
(***************************************************************************)
NoPort == -1
MaxPort == 65535

SchemeHttps == <<"h","t","t","p","s">>
SchemeHttp == <<"h","t","t","p">>
SchemeWs == <<"w","s">>
SchemeWss == <<"w","s","s">>
SchemeFtp == <<"f","t","p">>

SpecialSchemes == {SchemeHttps, SchemeHttp, SchemeWs, SchemeWss, SchemeFtp}

default_port(scheme) ==
    IF scheme = SchemeHttps \/ scheme = SchemeWss THEN 443
    ELSE IF scheme = SchemeHttp \/ scheme = SchemeWs THEN 80
    ELSE IF scheme = SchemeFtp THEN 21
    ELSE NoPort

\* a Url: host is meaningful when hasHost, query when hasQuery, fragment when
\* hasFragment; port is NoPort when the URL has none
MkUrl(scheme, hasHost, host, port, path, hasQuery, query, hasFragment, fragment) ==
    [scheme |-> scheme, hasHost |-> hasHost, host |-> host, port |-> port,
     path |-> path, hasQuery |-> hasQuery, query |-> query,
     hasFragment |-> hasFragment, fragment |-> fragment]

NoUrl == MkUrl(<<>>, FALSE, <<>>, NoPort, <<>>, FALSE, <<>>, FALSE, <<>>)

\* Result<Url, ParseError> and Option<Url>
Ok(u) == [ok |-> TRUE, url |-> u]
Err == [ok |-> FALSE, url |-> NoUrl]

\* the forbidden host code points an opaque host is checked against
ForbiddenHost == {" ", "\t", "\n", "\r", "#", "/", ":", "<", ">", "?", "@",
                  "[", "\\", "]", "^"}
\* Host::parse checks a domain against these: the above and '%'
ForbiddenDomain == ForbiddenHost \cup {"%"}

\* Host::parse: the host of a special scheme is lowercased and must hold no
\* forbidden domain code point
Host_parse(h) ==
    IF h = <<>> \/ (\E i \in DOMAIN h : h[i] \in ForbiddenDomain)
    THEN [ok |-> FALSE, host |-> <<>>]
    ELSE [ok |-> TRUE, host |-> LowerStr(h)]

\* Host::parse_opaque: the host of any other scheme is kept as written
Host_parse_opaque(h) ==
    IF \E i \in DOMAIN h : h[i] \in ForbiddenHost
    THEN [ok |-> FALSE, host |-> <<>>]
    ELSE [ok |-> TRUE, host |-> h]

\* the value of a run of digits
RECURSIVE DigitsToNat(_)
DigitsToNat(ds) ==
    IF ds = <<>> THEN 0
    ELSE 10 * DigitsToNat(SubSeq(ds, 1, Len(ds) - 1)) + DigitVal(ds[Len(ds)])

\* u16::to_string
RECURSIVE NatToDigits(_)
NatToDigits(n) ==
    IF n < 10 THEN <<Digits[n + 1]>>
    ELSE NatToDigits(n \div 10) \o <<Digits[(n % 10) + 1]>>

\* Parser::parse_port on the characters after ':' up to the end of the authority:
\* decimal digits only, at most 65535; no digit, or the scheme's default port,
\* gives no port
PortOf(ds, scheme, n) ==
    IF n > MaxPort THEN [ok |-> FALSE, port |-> NoPort]
    ELSE IF ds = <<>> \/ n = default_port(scheme) THEN [ok |-> TRUE, port |-> NoPort]
    ELSE [ok |-> TRUE, port |-> n]

parse_port(ds, scheme) ==
    IF \E i \in DOMAIN ds : ~IsDigit(ds[i]) THEN [ok |-> FALSE, port |-> NoPort]
    ELSE PortOf(ds, scheme, DigitsToNat(ds))

\* Parser::parse_fragment: rest is empty or starts with '#'
FragmentOf(path, hasQuery, query, rest) ==
    [path |-> path, hasQuery |-> hasQuery, query |-> query,
     hasFragment |-> rest # <<>>,
     fragment |-> IF rest # <<>> THEN Tail(rest) ELSE <<>>]

\* Parser::parse_query: the query runs to position f of afterQ, the '#' or the end
QueryAt(path, afterQ, f) ==
    FragmentOf(path, TRUE, SubSeq(afterQ, 1, f - 1), From(afterQ, f))

\* Parser::parse_query_and_fragment: after is empty or starts with '?' or '#'
QueryAndFragment(path, after) ==
    IF after # <<>> /\ after[1] = "?"
    THEN QueryAt(path, Tail(after), FindFirst(Tail(after), {"#"}))
    ELSE FragmentOf(path, FALSE, <<>>, after)

\* Parser::parse_path_start: the path of a special scheme starts with '/', and
\* a '\' in it counts as '/'
PathOf(raw, special) ==
    IF ~special THEN raw
    ELSE IF raw = <<>> THEN <<"/">>
    ELSE [i \in DOMAIN raw |-> IF raw[i] = "\\" THEN "/" ELSE raw[i]]

\* the path ends before position q of rest, the first '?' or '#' or the end
TailAt(rest, special, q) ==
    QueryAndFragment(PathOf(SubSeq(rest, 1, q - 1), special), From(rest, q))

\* the path, query and fragment of what follows the authority
ParseTail(rest, special) == TailAt(rest, special, FindFirst(rest, {"?", "#"}))

\* the URL of a parsed host h, a parsed port p and the parsed rest t
WithHostAndPort(scheme, h, p, t) ==
    IF ~h.ok \/ ~p.ok THEN Err
    ELSE Ok(MkUrl(scheme, TRUE, h.host, p.port, t.path, t.hasQuery, t.query,
                  t.hasFragment, t.fragment))

\* Parser::parse_host: a domain for a special scheme, an opaque host otherwise
parse_host(hostStr, special) ==
    IF special THEN Host_parse(hostStr) ELSE Host_parse_opaque(hostStr)

\* Parser::parse_host_and_port: the host ends before position c of the
\* authority, the first ':' or the end; the port follows the ':'
HostAndPortAt(authority, c, scheme, special, t) ==
    WithHostAndPort(scheme, parse_host(SubSeq(authority, 1, c - 1), special),
                    parse_port(From(authority, c + 1), scheme), t)

\* the authority ends before position e of input
AuthorityAt(input, e, scheme, special) ==
    HostAndPortAt(SubSeq(input, 1, e - 1),
                  FindFirst(SubSeq(input, 1, e - 1), {":"}),
                  scheme, special, ParseTail(From(input, e), special))

\* Parser::after_double_slash: host, port, then path, query and fragment
after_double_slash(input, scheme, special) ==
    AuthorityAt(input,
                FindFirst(input, IF special THEN {"/", "\\", "?", "#"}
                                            ELSE {"/", "?", "#"}),
                scheme, special)

\* a URL without authority has no host
WithoutAuthority(scheme, t) ==
    Ok(MkUrl(scheme, FALSE, <<>>, NoPort, t.path, t.hasQuery, t.query,
             t.hasFragment, t.fragment))

\* Parser::parse_with_scheme: a special scheme skips any run of '/' and '\'
\* before its authority; another scheme has an authority after "//" only
AfterScheme(scheme, rest) ==
    IF scheme \in SpecialSchemes \/ starts_with(rest, <<"/", "/">>)
    THEN after_double_slash(
             IF scheme \in SpecialSchemes
             THEN From(rest, FindFirstNot(rest, {"/", "\\"}))
             ELSE From(rest, 3),
             scheme, scheme \in SpecialSchemes)
    ELSE WithoutAuthority(scheme, ParseTail(rest, FALSE))

\* Parser::parse_scheme: a letter, then letters, digits, '+', '-', '.', then ':'
\* at position c
SchemeOk(input, c) ==
    /\ 1 < c
    /\ c <= Len(input)
    /\ IsAlpha(input[1])
    /\ \A i \in 1..(c - 1) :
          IsAlpha(input[i]) \/ IsDigit(input[i]) \/ input[i] \in {"+", "-", "."}

ParseAt(input, c) ==
    IF ~SchemeOk(input, c) THEN Err   \* RelativeUrlWithoutBase
    ELSE AfterScheme(LowerStr(SubSeq(input, 1, c - 1)), From(input, c + 1))

\* Url::parse without a base URL
Url_parse(input) == ParseAt(input, FindFirst(input, {":"}))

\* Url::has_host
has_host(u) == u.hasHost

\* Url::as_str: the serialization
as_str(u) ==
    u.scheme \o <<":">>
      \o (IF u.hasHost
          THEN <<"/", "/">> \o u.host
                 \o (IF u.port # NoPort THEN <<":">> \o NatToDigits(u.port) ELSE <<>>)
          ELSE <<>>)
      \o u.path
      \o (IF u.hasQuery THEN <<"?">> \o u.query ELSE <<>>)
      \o (IF u.hasFragment THEN <<"#">> \o u.fragment ELSE <<>>)

\* Url::cannot_be_a_base: no authority and a path that does not start with '/'
cannot_be_a_base(u) == ~u.hasHost /\ ~starts_with(u.path, <<"/">>)

\* Url::set_host(Some(host)): the host, up to a ':' at position c, is parsed as
\* that of the URL's own scheme; an empty or unparsable host, or a
\* cannot-be-a-base URL, is an error; the port and everything else is kept
SetHostTo(u, host, c, h) ==
    IF cannot_be_a_base(u) THEN Err
    ELSE IF host = <<>> /\ u.scheme \in SpecialSchemes THEN Err
    ELSE IF c = 1 THEN Err
    ELSE IF ~h.ok THEN Err
    ELSE Ok([u EXCEPT !.hasHost = TRUE, !.host = h.host])

SetHostAt(u, host, c) ==
    SetHostTo(u, host, c, parse_host(SubSeq(host, 1, c - 1), u.scheme \in SpecialSchemes))

set_host(u, host) == SetHostAt(u, host, FindFirst(host, {":"}))

(***************************************************************************)
(* types::Domain and types::errors::DomainChangerError.                    *)
(***************************************************************************)
\* Url::host_str: Option<&str>
host_str(u) == [some |-> u.hasHost, s |-> IF u.hasHost THEN u.host ELSE <<>>]

MkDomain(old, new) == [old |-> old, new |-> new]
NoDomain == MkDomain(NoUrl, NoUrl)

\* Domain::new
Domain_new(old, new) == MkDomain(old, new)

InvalidOldDomain == "InvalidOldDomain"
InvalidNewDomain == "InvalidNewDomain"
NoError == "none"

is_invalid_old_domain(e) == e = InvalidOldDomain
is_invalid_new_domain(e) == e = InvalidNewDomain


\* a faulty try_from: the new string is checked before the old one
TryFromParsed_new_first(po, pn) ==
    IF ~pn.ok THEN [ok |-> FALSE, err |-> InvalidNewDomain, domain |-> NoDomain]
    ELSE IF ~po.ok THEN [ok |-> FALSE, err |-> InvalidOldDomain, domain |-> NoDomain]
    ELSE [ok |-> TRUE, err |-> NoError, domain |-> MkDomain(po.url, pn.url)]

\* a faulty try_from: a URL without host is refused
TryFromParsed_hosts(po, pn) ==
    IF ~po.ok \/ ~po.url.hasHost
    THEN [ok |-> FALSE, err |-> InvalidOldDomain, domain |-> NoDomain]
    ELSE IF ~pn.ok \/ ~pn.url.hasHost
    THEN [ok |-> FALSE, err |-> InvalidNewDomain, domain |-> NoDomain]
    ELSE [ok |-> TRUE, err |-> NoError, domain |-> MkDomain(po.url, pn.url)]

\* impl TryFrom<(&str, &str)> for Domain, on the two parse results: the error of
\* the old string is returned before that of the new string is looked at
TryFromParsed(po, pn) ==
    IF ~po.ok THEN [ok |-> FALSE, err |-> InvalidOldDomain, domain |-> NoDomain]
    ELSE IF ~pn.ok THEN [ok |-> FALSE, err |-> InvalidNewDomain, domain |-> NoDomain]
    ELSE [ok |-> TRUE, err |-> NoError, domain |-> MkDomain(po.url, pn.url)]

Domain_try_from(o, n) == TryFromParsed(Url_parse(o), Url_parse(n))

SerdeError == "serde"

\* ToFromJson::from_json for Domain: the derived Deserialize parses the two
\* string fields with Url::parse and fails when either does
FromJsonParsed(po, pn) ==
    IF po.ok /\ pn.ok
    THEN [ok |-> TRUE, err |-> NoError, domain |-> MkDomain(po.url, pn.url)]
    ELSE [ok |-> FALSE, err |-> SerdeError, domain |-> NoDomain]

Domain_from_json(o, n) == FromJsonParsed(Url_parse(o), Url_parse(n))

HttpsPrefix == <<"h","t","t","p","s",":","/","/">>
HttpPrefix == <<"h","t","t","p",":","/","/">>


\* a faulty Normalize: a bare word gets the scheme http
Normalize_http(word) ==
    IF starts_with(word, HttpsPrefix) \/ starts_with(word, HttpPrefix)
    THEN word
    ELSE HttpPrefix \o word

\* the string Domain::contain hands to Url::parse
Normalize(word) ==
    LET host_with_https == HttpsPrefix \o word
    IN IF starts_with(word, HttpsPrefix) \/ starts_with(word, HttpPrefix)
       THEN word
       ELSE host_with_https


\* a faulty Domain::contain: the new host is compared whatever just_old is
ContainParsed_any_host(d, just_old, p) ==
    IF /\ p.ok
       /\ host_str(p.url).some
       /\ \/ has_host(d.old) /\ host_str(d.old).s = host_str(p.url).s
          \/ has_host(d.new) /\ host_str(d.new).s = host_str(p.url).s
    THEN Ok(p.url)
    ELSE Err

\* Domain::contain on the parse result p of the normalized word
ContainParsed(d, just_old, p) ==
    IF /\ p.ok
       /\ host_str(p.url).some
       /\ \/ has_host(d.old) /\ host_str(d.old).s = host_str(p.url).s
          \/ ~just_old /\ has_host(d.new) /\ host_str(d.new).s = host_str(p.url).s
    THEN Ok(p.url)
    ELSE Err

\* Domain::contain: Option<Url>
Domain_contain(d, word, just_old) == ContainParsed(d, just_old, Url_parse(Normalize(word)))

(***************************************************************************)
(* types::Config.  A reference to an entry of the table is its position.   *)
(***************************************************************************)
NoIndex == 0


\* the positions of the entries whose contain succeeds
Containing(ds, word, just_old) ==
    {i \in DOMAIN ds : Domain_contain(ds[i], word, just_old).ok}

\* a faulty Config::contain: the last entry whose contain succeeds
FindIn_last(hits) ==
    IF hits = {} THEN NoIndex ELSE CHOOSE i \in hits : \A j \in hits : j <= i

\* Iterator::find: the first of the positions, NoIndex when there is none
FindIn(hits) ==
    IF hits = {} THEN NoIndex ELSE CHOOSE i \in hits : \A j \in hits : i <= j

\* Config::contain: the first entry whose contain succeeds, NoIndex when none
Config_contain(ds, word, just_old) == FindIn(Containing(ds, word, just_old))

\* Config::old_hosts
RECURSIVE old_hosts(_)
old_hosts(ds) ==
    IF ds = <<>> THEN <<>>
    ELSE (IF host_str(ds[1].old).some THEN <<host_str(ds[1].old).s>> ELSE <<>>)
           \o old_hosts(Tail(ds))

\* Config::new_hosts
RECURSIVE new_hosts(_)
new_hosts(ds) ==
    IF ds = <<>> THEN <<>>
    ELSE (IF host_str(ds[1].new).some THEN <<host_str(ds[1].new).s>> ELSE <<>>)
           \o new_hosts(Tail(ds))

(***************************************************************************)
(* lib.rs: parse_string and extract_old_domains.                           *)
(***************************************************************************)
\* what the closure of parse_string returns for one word.  Panic: set_host
\* failed and unwrap aborted.
Word(s) == [panic |-> FALSE, s |-> s]
Panic == [panic |-> TRUE, s |-> <<>>]

\* url.set_host(Some(new_host)).unwrap(); url.as_str().to_string()
Unwrap(r) == IF r.ok THEN Word(as_str(r.url)) ELSE Panic

\* the scan of the table from entry i on; RewriteWith is the body of the loop
\* for entry i, c being what its contain returned
RECURSIVE RewriteFrom(_, _, _)
RewriteWith(ds, word, i, c) ==
    IF c.ok /\ host_str(ds[i].new).some
    THEN Unwrap(set_host(c.url, host_str(ds[i].new).s))
    ELSE RewriteFrom(ds, word, i + 1)

\* a faulty scan: a word no entry rewrites is emitted with its scheme
RewriteFrom_normalized(ds, word, i) ==
    IF i > Len(ds) THEN Word(Normalize(word))
    ELSE RewriteWith(ds, word, i, Domain_contain(ds[i], word, TRUE))

RewriteFrom(ds, word, i) ==
    IF i > Len(ds) THEN Word(word)
    ELSE RewriteWith(ds, word, i, Domain_contain(ds[i], word, TRUE))

\* the closure of parse_string for one word
RewriteWord(ds, word) == RewriteFrom(ds, word, 1)

\* collect and join, rs being what the closure returned for each word
JoinResults(rs) ==
    IF \E i \in DOMAIN rs : rs[i].panic THEN Panic
    ELSE Word(join([i \in DOMAIN rs |-> rs[i].s], <<" ">>))

MapWords(ds, ws) == [i \in DOMAIN ws |-> RewriteWord(ds, ws[i])]

\* parse_string: empty text is returned as it is; otherwise the words are mapped
\* and joined with one space
parse_string(ds, t) ==
    IF t # <<>> THEN JoinResults(MapWords(ds, split_ascii_whitespace(t)))
    ELSE Word(t)

\* Option<&Domain> as filter_map takes it: nothing for None
Some(idx) == IF idx # NoIndex THEN <<idx>> ELSE <<>>

\* Iterator::filter_map of Config::contain over the words
RECURSIVE FilterContain(_, _)
FilterContain(ds, ws) ==
    IF ws = <<>> THEN <<>>
    ELSE Some(Config_contain(ds, ws[1], TRUE)) \o FilterContain(ds, Tail(ws))

\* extract_old_domains: Vec<&Domain>
extract_old_domains(ds, t) == FilterContain(ds, split_ascii_whitespace(t))

(***************************************************************************)
(* The inputs the operations are applied to.                               *)
(***************************************************************************)
HostY == <<"y",".","i","o">>
HostP == <<"p",".","i","o">>

UrlY == HttpsPrefix \o HostY \o <<"/">>                \* https://y.io/
UrlP == HttpsPrefix \o HostP                           \* https://p.io
UrlMailto == <<"m","a","i","l","t","o",":","a">>       \* mailto:a
UrlOpaque == <<"f","o","o",":","/","/","a","%","z">>   \* foo://a%z
UrlBare == HostY                                       \* y.io

\* the (old, new) string pairs entries are constructed from
DomainPairs ==
    { <<UrlY, UrlP>>, <<UrlP, UrlY>>, <<UrlY, UrlMailto>>, <<UrlY, UrlOpaque>>,
      <<UrlMailto, UrlP>>,
      <<UrlBare, UrlP>>, <<UrlBare, UrlBare>>, <<UrlBare, UrlMailto>>,
      <<UrlY, UrlBare>>, <<UrlMailto, UrlBare>> }

WordBare == HostY \o <<"/","s">>                       \* y.io/s
WordHttp == HttpPrefix \o HostY
              \o <<":","0","8","1","/","a","?","q","#","f">>   \* http://y.io:081/a?q#f
WordNew == HostP                                       \* p.io
WordBadPort == HostY \o <<":","x">>                    \* y.io:x
WordUpper == <<"Y",".","I","O">>                       \* Y.IO
WordPlain == <<"h","i",",">>                           \* hi,
WordHttpsNew == HttpsPrefix \o HostP \o <<"/","c">>    \* https://p.io/c

\* the words and the whitespace a text is made of
TextWords == {WordBare, WordHttp, WordNew, WordBadPort}
TextSpaces == {<<" ">>, <<"\t">>}

\* the words Domain::contain is called with
ContainWords == TextWords \cup {WordUpper, WordPlain, WordHttpsNew, <<>>}

\* the entries of the tables below, each constructed by Domain::try_from
EntryYP == Domain_try_from(UrlY, UrlP).domain            \* y.io -> p.io
EntryPY == Domain_try_from(UrlP, UrlY).domain            \* p.io -> y.io
EntryYMailto == Domain_try_from(UrlY, UrlMailto).domain  \* y.io -> (no host)
EntryYOpaque == Domain_try_from(UrlY, UrlOpaque).domain  \* y.io -> a%z
EntryMailtoP == Domain_try_from(UrlMailto, UrlP).domain  \* (no host) -> p.io

Entries == <<EntryYP, EntryPY, EntryYMailto, EntryYOpaque, EntryMailtoP>>

\* the tables the texts are rewritten with, Config::new(vec![...]), each given
\* by the positions of its entries in Entries
Configs ==
    { [i \in DOMAIN t |-> Entries[t[i]]] :
        t \in { <<>>, <<1>>, <<2>>, <<3>>, <<4>>, <<5>>,
                <<1, 2>>, <<3, 1>>, <<1, 3>>, <<1, 4>>, <<4, 1>>, <<5, 1>> } }

(***************************************************************************)
(* The state machine.  Under SpecEntries entries are constructed, collected *)
(* in a table and asked whether they contain a word; under Spec a text is  *)
(* written and the two functions of lib.rs are applied to it and a table.  *)
(***************************************************************************)
NoArg == <<<<>>, <<>>>>
NoBuilt == [ok |-> FALSE, err |-> NoError, domain |-> NoDomain]
NoFound == [idx |-> NoIndex, word |-> <<>>, just_old |-> FALSE, res |-> Err]
NoOut == Word(<<>>)

Constructors == {"try_from", "new", "from_json"}

NoResults ==
    /\ last = "init"
    /\ arg = NoArg
    /\ built = NoBuilt
    /\ found = NoFound
    /\ out = NoOut
    /\ extracted = <<>>

\* no entry, no text
InitEntries ==
    /\ domains = <<>>
    /\ text = <<>>
    /\ pieces = 0
    /\ NoResults

\* a table, no text yet
Init ==
    /\ domains \in Configs
    /\ text = <<>>
    /\ pieces = 0
    /\ NoResults

\* Domain::try_from((o, n))
TryFrom(o, n) ==
    /\ last' = "try_from"
    /\ arg' = <<o, n>>
    /\ built' = Domain_try_from(o, n)
    /\ found' = NoFound
    /\ UNCHANGED <<domains, text, pieces, out, extracted>>

\* Domain::new(Url::parse(o).unwrap(), Url::parse(n).unwrap())
DomainNew(o, n) ==
    \E po \in {Url_parse(o)}, pn \in {Url_parse(n)} :
        /\ po.ok /\ pn.ok
        /\ last' = "new"
        /\ arg' = <<o, n>>
        /\ built' = [ok |-> TRUE, err |-> NoError, domain |-> Domain_new(po.url, pn.url)]
        /\ found' = NoFound
        /\ UNCHANGED <<domains, text, pieces, out, extracted>>

\* Domain::from_json of {"old": o, "new": n}
FromJson(o, n) ==
    /\ last' = "from_json"
    /\ arg' = <<o, n>>
    /\ built' = Domain_from_json(o, n)
    /\ found' = NoFound
    /\ UNCHANGED <<domains, text, pieces, out, extracted>>

\* Config::new: the entry just constructed joins the table
ConfigNew ==
    /\ last \in Constructors
    /\ built.ok
    /\ Len(domains) < MaxEntries
    /\ domains' = Append(domains, built.domain)
    /\ last' = "config"
    /\ arg' = NoArg /\ built' = NoBuilt /\ found' = NoFound
    /\ UNCHANGED <<text, pieces, out, extracted>>

\* domains[i].contain(w, f)
Contain(i, w, f) ==
    /\ last' = "contain"
    /\ found' = [idx |-> i, word |-> w, just_old |-> f,
                 res |-> Domain_contain(domains[i], w, f)]
    /\ arg' = NoArg /\ built' = NoBuilt
    /\ UNCHANGED <<domains, text, pieces, out, extracted>>

\* the caller writes the text: one more word or one more whitespace character
AppendPiece(p) ==
    /\ pieces < MaxPieces
    /\ text' = text \o p
    /\ pieces' = pieces + 1
    /\ last' = "text"
    /\ out' = NoOut /\ extracted' = <<>>
    /\ UNCHANGED <<domains, arg, built, found>>

\* parse_string(&config, text)
ParseString ==
    /\ last' = "parse_string"
    /\ out' = parse_string(domains, text)
    /\ extracted' = <<>>
    /\ UNCHANGED <<domains, text, pieces, arg, built, found>>

\* extract_old_domains(&config, text)
ExtractOldDomains ==
    /\ last' = "extract_old_domains"
    /\ extracted' = extract_old_domains(domains, text)
    /\ out' = NoOut
    /\ UNCHANGED <<domains, text, pieces, arg, built, found>>

NextEntries ==
    \/ \E pr \in DomainPairs : TryFrom(pr[1], pr[2])
    \/ \E pr \in DomainPairs : DomainNew(pr[1], pr[2])
    \/ \E pr \in DomainPairs : FromJson(pr[1], pr[2])
    \/ ConfigNew
    \/ \E i \in DOMAIN domains, w \in ContainWords, f \in BOOLEAN : Contain(i, w, f)

Next ==
    \/ \E p \in TextWords \cup TextSpaces : AppendPiece(p)
    \/ ParseString
    \/ ExtractOldDomains

SpecEntries == InitEntries /\ [][NextEntries]_vars

Spec == Init /\ [][Next]_vars

(***************************************************************************)
(* Properties.                                                             *)
(***************************************************************************)
\* the words of the text and of the returned string
Tokens == split_ascii_whitespace(text)
OutTokens == split_ascii_whitespace(out.s)

\* some entry's contain(w, true) succeeds
Matched(w) == \E j \in DOMAIN domains : Domain_contain(domains[j], w, TRUE).ok

NoneMatched == \A i \in DOMAIN Tokens : ~Matched(Tokens[i])

\* s holds no whitespace but single spaces between two words
SingleSpaced(s) ==
    \A k \in DOMAIN s :
        s[k] \in AsciiWhitespace =>
            /\ s[k] = " "
            /\ 1 < k /\ k < Len(s)
            /\ s[k - 1] \notin AsciiWhitespace
            /\ s[k + 1] \notin AsciiWhitespace

\* the URL the word w is read as
Parsed(w) == Url_parse(Normalize(w))

\* C1: parse_string returns, and each word some entry's contain(word, true)
\* succeeds for is replaced in the result by the matched URL with only its host
\* changed, to the new host of such an entry: scheme, port, path, query and
\* fragment are those of the parsed word.
C1_MatchedReplaced ==
    (last = "parse_string" /\ text # <<>>) =>
        /\ ~out.panic
        /\ Len(OutTokens) = Len(Tokens)
        /\ \A i \in DOMAIN Tokens :
              Matched(Tokens[i]) =>
                 \E j \in DOMAIN domains :
                    LET c == Domain_contain(domains[j], Tokens[i], TRUE)
                        r == Url_parse(OutTokens[i])
                    IN /\ c.ok
                       /\ domains[j].new.hasHost
                       /\ r.ok
                       /\ r.url = [c.url EXCEPT !.host = domains[j].new.host]

C3_Original ==
    last = "parse_string" =>
        /\ text = <<>> => out = Word(<<>>)
        /\ (text # <<>> /\ NoneMatched) =>
              /\ ~out.panic
              /\ out.s # <<>>
              /\ out.s = text

\* C3 amended: the empty text gives the empty text; a non-empty text no word of
\* which matches gives its words unmodified, joined by single spaces, which is
\* the empty string exactly when the text is whitespace only.
C3_Amended ==
    last = "parse_string" =>
        /\ text = <<>> => out = Word(<<>>)
        /\ (text # <<>> /\ NoneMatched) =>
              /\ ~out.panic
              /\ OutTokens = Tokens
              /\ SingleSpaced(out.s)
              /\ out.s = <<>> <=> Tokens = <<>>
              /\ SingleSpaced(text) => out.s = text

\* C3 witness: a table with entries, a text with words none of which matches,
\* returned with its whitespace changed
C3_Witness ==
    /\ last = "parse_string"
    /\ domains # <<>>
    /\ Tokens # <<>>
    /\ NoneMatched
    /\ out.s # <<>>
    /\ out.s # text

\* C7: extract_old_domains returns one entry per word that some entry's
\* contain(word, true) succeeds for, in the order of the words, duplicates kept,
\* and that entry is the first of the table whose contain succeeds.
C7_ExtractInOrder ==
    last = "extract_old_domains" =>
        LET M == {i \in DOMAIN Tokens : Matched(Tokens[i])}
        IN /\ Len(extracted) = Cardinality(M)
           /\ \E f \in [DOMAIN extracted -> M] :
                 /\ \A a, b \in DOMAIN extracted : a < b => f[a] < f[b]
                 /\ \A k \in DOMAIN extracted :
                       /\ extracted[k] \in DOMAIN domains
                       /\ Domain_contain(domains[extracted[k]], Tokens[f[k]], TRUE).ok
                       /\ \A j \in 1..(extracted[k] - 1) :
                             ~Domain_contain(domains[j], Tokens[f[k]], TRUE).ok

\* C7 witness: two words match the same entry of a table of two entries that
\* both contain them
C7_Witness ==
    /\ last = "extract_old_domains"
    /\ Len(domains) = 2
    /\ Len(Tokens) = 2
    /\ extracted = <<1, 1>>
    /\ Domain_contain(domains[2], Tokens[1], TRUE).ok

\* every word that reads as a URL has the new host of some entry
UsesOnlyNewHosts ==
    \A i \in DOMAIN Tokens :
        (Parsed(Tokens[i]).ok /\ Parsed(Tokens[i]).url.hasHost) =>
            Parsed(Tokens[i]).url.host \in Range(new_hosts(domains))

\* no word has a host that is the old host of some entry
UsesNoOldHost ==
    \A i \in DOMAIN Tokens :
        (Parsed(Tokens[i]).ok /\ Parsed(Tokens[i]).url.hasHost) =>
            Parsed(Tokens[i]).url.host \notin Range(old_hosts(domains))

\* C8 as stated: a text whose URL words use only new hosts of the table is
\* returned unchanged.
C8_Original ==
    (last = "parse_string" /\ UsesOnlyNewHosts) => out = Word(text)

\* C8 amended: a text whose URL words use only new hosts that are not old hosts
\* of the table too is returned with its words unchanged, joined by single
\* spaces: unchanged when it was written that way.
C8_Amended ==
    (last = "parse_string" /\ UsesOnlyNewHosts /\ UsesNoOldHost) =>
        /\ ~out.panic
        /\ OutTokens = Tokens
        /\ SingleSpaced(out.s) \/ text = <<>>
        /\ SingleSpaced(text) => out.s = text

\* C8 witness: a word with the new host of an entry that has an old host
C8_Witness ==
    /\ last = "parse_string"
    /\ UsesOnlyNewHosts
    /\ UsesNoOldHost
    /\ \E i \in DOMAIN Tokens : Parsed(Tokens[i]).ok
    /\ \E j \in DOMAIN domains : domains[j].old.hasHost /\ domains[j].new.hasHost
    /\ out.s = text

\* C10: parse_string never aborts: set_host succeeds for every matched URL.
C10_Total ==
    last = "parse_string" => ~out.panic

\* C4: try_from returns InvalidOldDomain whenever the old string does not parse,
\* whatever the new string is, InvalidNewDomain whenever the old string parses
\* and the new one does not, and the entry of the two parsed URLs exactly when
\* both parse; no error is of both kinds.
C4_TryFromErrors ==
    last = "try_from" =>
        LET po == Url_parse(arg[1])
            pn == Url_parse(arg[2])
        IN /\ ~po.ok => (~built.ok /\ is_invalid_old_domain(built.err))
           /\ (po.ok /\ ~pn.ok) => (~built.ok /\ is_invalid_new_domain(built.err))
           /\ built.ok <=> (po.ok /\ pn.ok)
           /\ built.ok => built.domain = MkDomain(po.url, pn.url)
           /\ ~(is_invalid_old_domain(built.err) /\ is_invalid_new_domain(built.err))

\* C4 witness: neither string parses and the error is that of the old one
C4_Witness ==
    /\ last = "try_from"
    /\ ~Url_parse(arg[1]).ok
    /\ ~Url_parse(arg[2]).ok
    /\ is_invalid_old_domain(built.err)
    /\ ~is_invalid_new_domain(built.err)

\* the host of the word read as a URL is the host of u
HostIs(w, u) ==
    /\ Parsed(w).ok
    /\ Parsed(w).url.hasHost
    /\ u.hasHost
    /\ Parsed(w).url.host = u.host

\* C5: contain returns the parsed word exactly when the word reads as a URL
\* whose host is the entry's old host, or just_old is false and it is the
\* entry's new host; with just_old a word with the new host only is not
\* matched, and a word that does not parse gives absence.
C5_ContainIff ==
    last = "contain" =>
        LET d == domains[found.idx]
            w == found.word
        IN /\ found.res.ok <=>
                 (HostIs(w, d.old) \/ (~found.just_old /\ HostIs(w, d.new)))
           /\ found.res.ok => found.res.url = Parsed(w).url
           /\ (found.just_old /\ ~HostIs(w, d.old)) => found.res = Err
           /\ ~Parsed(w).ok => found.res = Err

\* C5 witness: with just_old a word with the new host of the entry is not
\* matched
C5_Witness ==
    /\ last = "contain"
    /\ found.just_old
    /\ HostIs(found.word, domains[found.idx].new)
    /\ ~HostIs(found.word, domains[found.idx].old)
    /\ found.res = Err

IsBare(w) == ~starts_with(w, HttpsPrefix) /\ ~starts_with(w, HttpPrefix)

\* C6: contain of a bare word is contain of "https://" + word, and a word that
\* starts with http:// or https:// is parsed as written and keeps its scheme.
C6_BareAsHttps ==
    last = "contain" =>
        LET d == domains[found.idx]
            w == found.word
        IN /\ IsBare(w) =>
                 found.res = Domain_contain(d, HttpsPrefix \o w, found.just_old)
           /\ (IsBare(w) /\ found.res.ok) => found.res.url.scheme = SchemeHttps
           /\ (~IsBare(w) /\ found.res.ok) =>
                 /\ found.res.url = Url_parse(w).url
                 /\ starts_with(w, HttpPrefix) => found.res.url.scheme = SchemeHttp
                 /\ starts_with(w, HttpsPrefix) => found.res.url.scheme = SchemeHttps

\* C6 witness: a bare word is matched and read with the scheme https
C6_Witness ==
    /\ last = "contain"
    /\ IsBare(found.word)
    /\ found.res.ok
    /\ found.res.url.scheme = SchemeHttps
    /\ found.res.url.path # <<"/">>

HasNonEmptyHost(u) == u.hasHost /\ u.host # <<>>

\* C9 as stated: every constructed entry, and so every entry of a table, has an
\* old and a new URL with a non-empty host.
C9_Original ==
    /\ (last \in Constructors /\ built.ok) =>
          (HasNonEmptyHost(built.domain.old) /\ HasNonEmptyHost(built.domain.new))
    /\ \A i \in DOMAIN domains :
          HasNonEmptyHost(domains[i].old) /\ HasNonEmptyHost(domains[i].new)

\* C9 amended: try_from and from_json construct an entry exactly when both
\* strings parse as absolute URLs, Domain::new always does, and the entry holds
\* the two parsed URLs, each with a scheme; a host is not required.
C9_Amended ==
    /\ last \in {"try_from", "from_json"} =>
          (built.ok <=> (Url_parse(arg[1]).ok /\ Url_parse(arg[2]).ok))
    /\ last = "new" => built.ok
    /\ (last \in Constructors /\ built.ok) =>
          /\ built.domain = MkDomain(Url_parse(arg[1]).url, Url_parse(arg[2]).url)
          /\ built.domain.old.scheme # <<>>
          /\ built.domain.new.scheme # <<>>
    /\ \A i \in DOMAIN domains :
          domains[i].old.scheme # <<>> /\ domains[i].new.scheme # <<>>

\* C9 witness: try_from constructs an entry whose new URL has no host
C9_Witness ==
    /\ last = "try_from"
    /\ built.ok
    /\ built.domain.old.hasHost
    /\ ~built.domain.new.hasHost

\* C11: for every table and every word of the text, parse_string returns and
\* the entry whose new host it puts into the word is the entry
\* Config::contain(word, true) returns, the first in table order whose contain
\* succeeds: the word is rewritten with that entry's new host when there is
\* such an entry, which is when extract_old_domains yields one for it, and is
\* emitted as it is when there is none.
C11_FirstMatchSubstituted ==
    (last = "parse_string" /\ text # <<>>) =>
        /\ ~out.panic
        /\ Len(OutTokens) = Len(Tokens)
        /\ \A i \in DOMAIN Tokens :
              LET k == Config_contain(domains, Tokens[i], TRUE)
                  r == Url_parse(OutTokens[i])
              IN IF k = NoIndex
                 THEN /\ OutTokens[i] = Tokens[i]
                      /\ extract_old_domains(domains, Tokens[i]) = <<>>
                 ELSE /\ extract_old_domains(domains, Tokens[i]) = <<k>>
                      /\ domains[k].new.hasHost
                      /\ r.ok
                      /\ r.url = [Domain_contain(domains[k], Tokens[i], TRUE).url
                                     EXCEPT !.host = domains[k].new.host]

====
